---- MODULE Spec2Model ----
(***************************************************************************)
(* potato-shell: the REPL loop of main and the pipeline executor           *)
(* handel_command of src/src/main.rs.                                      *)
(*                                                                         *)
(* A string is a sequence of one-character strings.  The REPL reads a line *)
(* (ReadLine), handel_command trims it, splits it on " | " and walks the   *)
(* segments one loop iteration per action, then waits on the process left  *)
(* in previous_command and returns to main.                                *)
(***************************************************************************)
EXTENDS Integers, Sequences, FiniteSets

(* ---------------------------------------------------------------- bounds *)
MaxSegs == 3
MaxLines == 2

(* ------------------------------------------------------ string primitives *)
None == 0

\* char::is_whitespace: the code points with the White_Space property; one
\* that has no escape in a string here is written as its code point name
WhiteSpace ==
  {" ", "\t", "\n", "\r", "\f", "U+000B", "U+0085", "U+00A0", "U+1680",
   "U+2000", "U+2001", "U+2002", "U+2003", "U+2004", "U+2005", "U+2006",
   "U+2007", "U+2008", "U+2009", "U+200A", "U+2028", "U+2029", "U+202F",
   "U+205F", "U+3000"}
IsWhitespace(c) == c \in WhiteSpace

RECURSIVE TrimStart(_)
TrimStart(s) ==
  IF s = <<>> THEN <<>>
  ELSE IF IsWhitespace(Head(s)) THEN TrimStart(Tail(s)) ELSE s

RECURSIVE TrimEnd(_)
TrimEnd(s) ==
  IF s = <<>> THEN <<>>
  ELSE IF IsWhitespace(s[Len(s)]) THEN TrimEnd(SubSeq(s, 1, Len(s) - 1)) ELSE s

Trim(s) == TrimEnd(TrimStart(s))

StartsWith(s, pat) ==
  /\ Len(s) >= Len(pat)
  /\ SubSeq(s, 1, Len(pat)) = pat

Contains(s, pat) ==
  \E i \in 1..(Len(s) - Len(pat) + 1) : SubSeq(s, i, i + Len(pat) - 1) = pat

\* str::split(pat): the pieces between the leftmost non-overlapping matches
RECURSIVE SplitFrom(_, _, _)
SplitFrom(s, pat, cur) ==
  IF s = <<>> THEN <<cur>>
  ELSE IF StartsWith(s, pat)
       THEN <<cur>> \o SplitFrom(SubSeq(s, Len(pat) + 1, Len(s)), pat, <<>>)
       ELSE SplitFrom(Tail(s), pat, Append(cur, Head(s)))

Split(s, pat) == SplitFrom(s, pat, <<>>)

\* str::split_whitespace: the maximal runs of non-whitespace characters
RECURSIVE SplitWsFrom(_, _)
SplitWsFrom(s, cur) ==
  IF s = <<>> THEN (IF cur = <<>> THEN <<>> ELSE <<cur>>)
  ELSE IF IsWhitespace(Head(s))
       THEN (IF cur = <<>> THEN <<>> ELSE <<cur>>) \o SplitWsFrom(Tail(s), <<>>)
       ELSE SplitWsFrom(Tail(s), Append(cur, Head(s)))

SplitWhitespace(s) == SplitWsFrom(s, <<>>)

(* ------------------------------------------------------------- literals *)
PipeSep == <<" ", "|", " ">>
ReadOp == <<"<", "<">>
WriteOp == <<">", ">">>

s_history == <<"h", "i", "s", "t", "o", "r", "y">>
s_cd == <<"c", "d">>
s_pwd == <<"p", "w", "d">>
s_clear == <<"c", "l", "e", "a", "r">>
s_exit == <<"e", "x", "i", "t">>
s_help == <<"h", "e", "l", "p">>
s_clearHistory == <<"c", "l", "e", "a", "r", "H", "i", "s", "t", "o", "r", "y">>
s_root == <<"/">>

\* variant: the "help" arm is missing, so help falls through to Other
from_str_NoHelp(s) ==
  IF s = s_history THEN "History"
  ELSE IF s = s_cd THEN "Cd"
  ELSE IF s = s_pwd THEN "Pwd"
  ELSE IF s = s_clear THEN "Clear"
  ELSE IF s = s_exit THEN "Exit"
  ELSE IF s = s_clearHistory THEN "ClearHistory"
  ELSE "Other"

\* Builtin::from_str
from_str(s) ==
  IF s = s_history THEN "History"
  ELSE IF s = s_cd THEN "Cd"
  ELSE IF s = s_pwd THEN "Pwd"
  ELSE IF s = s_clear THEN "Clear"
  ELSE IF s = s_exit THEN "Exit"
  ELSE IF s = s_help THEN "Help"
  ELSE IF s = s_clearHistory THEN "ClearHistory"
  ELSE "Other"

\* the (file, parts) pair computed at the top of each loop iteration
ParseSegment(command) ==
  IF Contains(command, ReadOp)
  THEN LET parts == Split(command, ReadOp)
       IN [file |-> "ReadFile", path |-> Trim(parts[2]),
           parts |-> SplitWhitespace(parts[1])]
  ELSE IF Contains(command, WriteOp)
  THEN LET parts == Split(command, WriteOp)
       IN [file |-> "WriteFile", path |-> Trim(parts[2]),
           parts |-> SplitWhitespace(parts[1])]
  ELSE [file |-> "None", path |-> <<>>, parts |-> SplitWhitespace(command)]

\* variant: the line is split without being trimmed
Segments_NoTrim(input) == Split(input, PipeSep)

\* input.trim().split(" | ")
Segments(input) == Split(Trim(input), PipeSep)
(* ------------------------------------------------------------- the inputs *)
\* segment texts the generated lines are built from
t_A == <<"A">>
t_bad == <<"b", "a", "d">>
t_A_rd_f == <<"A", " ", "<", "<", " ", "f">>
t_cd_t == <<"c", "d", " ", "/", "t">>
t_pwd == <<"p", "w", "d">>
t_exit == <<"e", "x", "i", "t">>

SegTexts == {t_A, t_bad, t_A_rd_f, t_cd_t, t_pwd, t_exit}

RECURSIVE JoinPipe(_)
JoinPipe(segs) ==
  IF Len(segs) = 1 THEN segs[1]
  ELSE segs[1] \o PipeSep \o JoinPipe(Tail(segs))

\* every line of 1..MaxSegs segment texts joined by " | "
GeneratedLines ==
  { JoinPipe(segs) : segs \in UNION { [1..n -> SegTexts] : n \in 1..MaxSegs } }

\* further lines: the remaining builtins, arguments, spacing and operator mixes
l_01 == <<"h", "i", "s", "t", "o", "r", "y">>  \* "history"
l_02 == <<"c", "l", "e", "a", "r">>  \* "clear"
l_03 == <<"c", "l", "e", "a", "r", "H", "i", "s", "t", "o", "r", "y">>  \* "clearHistory"
l_04 == <<"h", "e", "l", "p">>  \* "help"
l_05 == <<"c", "d">>  \* "cd"
l_06 == <<"c", "d", " ", "/", "t", " ", "/", "n">>  \* "cd /t /n"
l_07 == <<"A", " ", "|", " ", "B">>  \* "A | B"
l_08 == <<"B", " ", "x">>  \* "B x"
l_09 == <<"A", " ", "|", " ", "h", "i", "s", "t", "o", "r", "y", " ", "|", " ", "B">>  \* "A | history | B"
l_10 == <<"A", " ", "|", " ", "c", "l", "e", "a", "r", " ", "|", " ", "B">>  \* "A | clear | B"
l_11 == <<"p", "w", "d", " ", ">", ">", " ", "n", "/", "g">>  \* "pwd >> n/g"
l_12 == <<"c", "d", " ", "/", "t", " ", "<", "<", " ", "n", " ", "|", " ", "p", "w", "d">>  \* "cd /t << n | pwd"
l_13 == <<"A", " ", ">", ">", " ", "n", "/", "g">>  \* "A >> n/g"
l_14 == <<"A", " ", ">", ">", " ", "n", "/", "g", " ", "|", " ", "p", "w", "d">>  \* "A >> n/g | pwd"
l_15 == <<"A", " ", "|", " ", "B", " ", ">", ">", " ", "n", "/", "g", " ", "|", " ", "c", "d", " ", "/", "t">>  \* "A | B >> n/g | cd /t"
l_16 == <<"A", " ", "<", "<", " ", "n", " ", "|", " ", "c", "d", " ", "/", "t", " ", "|", " ", "B">>  \* "A << n | cd /t | B"
l_17 == <<">", ">", " ", "g">>  \* ">> g"
l_18 == <<"A", " ", "|", " ", "<", "<", " ", "f">>  \* "A | << f"
l_19 == <<"A", "|", "B">>  \* "A|B"
l_20 == <<"A", " ", " ", "|", " ", " ", "B">>  \* "A  |  B"
l_21 == <<"A", " ", ">", ">", " ", "g", " ", "<", "<", " ", "f">>  \* "A >> g << f"
l_22 == <<"A", " ", "<", "<", " ", "f", " ", ">", ">", " ", "g">>  \* "A << f >> g"
l_23 == <<"P", "w", "d">>  \* "Pwd"
l_24 == <<"p", "w", "d", "x">>  \* "pwdx"
l_25 == <<" ", " ", "p", "w", "d", " ", " ">>  \* "  pwd  "
l_26 == <<" ", " ", " ">>  \* "   "
l_27 == <<"e", "x", "i", "t", " ", "|", " ", "p", "w", "d">>  \* "exit | pwd"
l_28 == <<"A", " ", "|", " ", "e", "x", "i", "t", " ", "|", " ", "B">>  \* "A | exit | B"
l_29 == <<"c", "l", "e", "a", "r", "H", "i", "s", "t", "o", "r", "y", " ", "|", " ", "p", "w", "d">>  \* "clearHistory | pwd"
l_30 == <<"h", "e", "l", "p", " ", "|", " ", "A">>  \* "help | A"
l_31 == <<"A", " ", "|", " ", "c", "d", " ", "/", "t", " ", "|", " ", "B">>  \* "A | cd /t | B"
l_32 == <<"A", " ", "|", " ", "c", "d", " ", "/", "n", " ", "|", " ", "B">>  \* "A | cd /n | B"
l_33 == <<"b", "a", "d", " ", "|", " ", "A", " ", "<", "<", " ", "f", " ", "|", " ", "B">>  \* "bad | A << f | B"
l_34 == <<"A", " ", "|", " ", "p", "w", "d">>  \* "A | pwd"
l_35 == <<"A", " ", "|", " ", "b", "a", "d", " ", "<", "<", " ", "f", " ", "|", " ", "B">>  \* "A | bad << f | B"
l_36 == <<>>  \* ""
l_37 == <<"A", " ", "|", " ", " ", "|", " ", "A">>  \* "A |  | A"
l_38 == <<"p", "w", "d", " ", "|", " ", " ", "|", " ", "p", "w", "d">>  \* "pwd |  | pwd"
l_39 == <<"A", " ", ">", ">", " ", "g">>  \* "A >> g"
l_40 == <<"A", " ", ">", ">", " ", "g", " ", "|", " ", "A">>  \* "A >> g | A"
l_41 == <<"A", " ", "|", " ", "A", " ", ">", ">", " ", "g">>  \* "A | A >> g"
l_42 == <<"A", " ", "|", " ", "A", " ", ">", ">", " ", "g", " ", "|", " ", "p", "w", "d">>  \* "A | A >> g | pwd"
l_43 == <<"c", "d", " ", "/", "n">>  \* "cd /n"
l_44 == <<"p", "w", "d", " ", "|", " ", "c", "d", " ", "/", "n", " ", "|", " ", "p", "w", "d">>  \* "pwd | cd /n | pwd"
l_45 == <<"c", "d", " ", "/", "n", " ", "|", " ", "p", "w", "d">>  \* "cd /n | pwd"
l_46 == <<"c", "d", " ", "/", "t", " ", "|", " ", "c", "d", " ", "/", "n", " ", "|", " ", "p", "w", "d">>  \* "cd /t | cd /n | pwd"
l_47 == <<"b", "a", "d", " ", "|", " ", "A", " ", ">", ">", " ", "g">>  \* "bad | A >> g"
l_48 == <<"A", " ", ">", ">", " ", "n">>  \* "A >> n"
l_49 == <<"A", " ", "<", "<", " ", "f", " ", "<", "<", " ", "g">>  \* "A << f << g"
l_50 == <<"A", " ", ">", ">", " ", "g", " ", ">", ">", " ", "f">>  \* "A >> g >> f"
l_51 == <<"A", " ", "|", " ", "|", " ", "B">>  \* "A | | B"
l_52 == <<"A", " ", "|", "B">>  \* "A |B"
l_53 == <<"A", "|", " ", "B">>  \* "A| B"
l_54 == <<"A", " ", " ", "|", " ", "B">>  \* "A  | B"
l_55 == <<"A", " ", "|", " ", "B", " ", "<", "<", " ", "f">>  \* "A | B << f"
l_56 == <<"A", " ", ">", ">", " ", "g", " ", "|", " ", "A", " ", "<", "<", " ", "f">>  \* "A >> g | A << f"
l_57 == <<"A", " ", "|", " ", "A", " ", ">", ">", " ", "n">>  \* "A | A >> n"
l_58 == <<"e", "x", "i", "t", " ", ">", ">", " ", "g", " ", "|", " ", "A">>  \* "exit >> g | A"
l_59 == <<"A", " ", "|", " ", "e", "x", "i", "t">>  \* "A | exit"
l_60 == <<"h", "i", "s", "t", "o", "r", "y", " ", "|", " ", "p", "w", "d">>  \* "history | pwd"
l_61 == <<"A", " ", "<", "<", " ", "n">>  \* "A << n"
l_62 == <<"A", " ", "|", " ", "A", " ", "<", "<", " ", "n">>  \* "A | A << n"
l_63 == <<"A", " ", "<", "<", " ", "n", " ", "|", " ", "p", "w", "d">>  \* "A << n | pwd"
l_64 == <<"A", " ", "|", " ", "A", " ", "<", "<", " ", "n", " ", "|", " ", "p", "w", "d">>  \* "A | A << n | pwd"
l_65 == <<"b", "a", "d", " ", "|", " ", "A", " ", "<", "<", " ", "n", " ", "|", " ", "p", "w", "d">>  \* "bad | A << n | pwd"
l_66 == <<"p", "w", "d", " ", "|", " ", "A", " ", "<", "<", " ", "n">>  \* "pwd | A << n"
l_67 == <<"\f", "p", "w", "d", "\r">>  \* form feed, "pwd", carriage return
l_68 == <<"p", "w", "d", "U+000B", "x", "\n">>  \* "pwd", vertical tab, "x", line feed
l_69 == <<"p", "w", "d", " ", ">", ">", " ", "n">>  \* "pwd >> n"
l_70 == <<"p", "w", "d", " ", "<", "<", " ", "f">>  \* "pwd << f"

OtherLines ==
  {l_01, l_02, l_03, l_04, l_05, l_06, l_07, l_08,
   l_09, l_10, l_11, l_12, l_13, l_14, l_15, l_16,
   l_17, l_18, l_19, l_20, l_21, l_22, l_23, l_24,
   l_25, l_26, l_27, l_28, l_29, l_30, l_31, l_32,
   l_33, l_34, l_35, l_36, l_37, l_38, l_39, l_40,
   l_41, l_42, l_43, l_44, l_45, l_46, l_47, l_48, l_49, l_50, l_51, l_52, l_53,
   l_54, l_55, l_56, l_57, l_58, l_59, l_60,
   l_61, l_62, l_63, l_64, l_65, l_66, l_67, l_68, l_69, l_70}

Lines == GeneratedLines \cup OtherLines

(* -------------------------------------------------------- the environment *)
\* programs Command::spawn can start
Executables == {<<"A">>, <<"B">>}
\* files that exist, readable, in every directory when the shell starts
ReadableFiles == {<<"f">>, <<"g">>}
\* paths File::options().write(true).create(true).open succeeds on: the
\* files that exist and the absent ones whose directory exists
WritableFiles == {<<"f">>, <<"g">>, <<"n">>}
\* the file of the history, as fs::write and save_history name it
s_historyFile ==
  <<".", "/", "h", "i", "s", "t", "o", "r", "y", ".", "t", "x", "t">>
\* a path relative to the working directory, without a leading "./"
FileName(path) ==
  IF StartsWith(path, <<".", "/">>) THEN SubSeq(path, 3, Len(path)) ELSE path
\* File::open(path) succeeds in directory dir: the file was there from the
\* start or an earlier open or write of the session created it
Readable(files, dir, path) ==
  \/ FileName(path) \in ReadableFiles
  \/ <<dir, FileName(path)>> \in files
\* the files of the session after path was created or truncated in dir
WithFile(files, dir, path) ==
  IF FileName(path) \in ReadableFiles THEN files
  ELSE files \cup {<<dir, FileName(path)>>}
\* paths env::set_current_dir succeeds on
Directories == {<<"/">>, <<"/", "t">>}

(* --------------------------------------------------------------- the state *)
VARIABLES
  pc,                \* "readline", "loop", "final", "return", "done", "panic"
  currct_path,       \* main's currct_path, the displayed path
  cwd,               \* the working directory of the process; the shell
                     \* is started in the directory its prompt shows
  created,           \* <<directory, file>> pairs the session has created
  histLen,           \* number of entries in rl's history
  nLines,            \* lines read so far
  line,              \* the input of the running handel_command call
  commands,          \* the segments the iterator has not yielded yet
  segIdx,            \* number of segments yielded so far
  previous_command,  \* None or the handle (index into procs) in the slot
  procs,             \* the processes spawned by the running call
  log,               \* what the running call printed, opened and changed
  result             \* result of the last handel_command call / of main

vars == <<pc, currct_path, cwd, created, histLen, nLines, line, commands, segIdx,
          previous_command, procs, log, result>>

Ev(seg, ev, arg) == [seg |-> seg, ev |-> ev, arg |-> arg]

Inherit == [kind |-> "inherit", path |-> <<>>, from |-> None]
FromFile(path) == [kind |-> "file", path |-> path, from |-> None]
FromPipe(h) == [kind |-> "pipe", path |-> <<>>, from |-> h]
Piped == [kind |-> "piped", path |-> <<>>, from |-> None]

\* a Child leaves the executor: "consumed", "waited" or "dropped"
SetFate(ps, h, f) == IF h = None THEN ps ELSE [ps EXCEPT ![h].fate = f]

Init ==
  /\ pc = "readline"
  /\ currct_path = s_root
  /\ cwd = s_root
  /\ created = {}
  /\ histLen = 0
  /\ nLines = 0
  /\ line = <<>>
  /\ commands = <<>>
  /\ segIdx = 0
  /\ previous_command = None
  /\ procs = <<>>
  /\ log = <<>>
  /\ result = "none"

(* ------------------------------------------------------------------- main *)
\* readline returned Ok(line): record it and call handel_command with fresh
\* locals; procs and log describe the call that is running
ReadLine ==
  /\ pc = "readline"
  /\ nLines < MaxLines
  /\ \E l \in Lines :
       /\ line' = l
       /\ commands' = Segments(l)
  /\ histLen' = histLen + 1
  /\ nLines' = nLines + 1
  /\ segIdx' = 0
  /\ previous_command' = None
  /\ procs' = <<>>
  /\ log' = <<>>
  /\ result' = "none"
  /\ pc' = "loop"
  /\ UNCHANGED <<currct_path, cwd, created>>

\* readline returned Interrupted or another error: leave the loop, save history
ReadBreak ==
  /\ pc = "readline"
  /\ pc' = "done"
  /\ \/ /\ result' = "ok"
        /\ created' = WithFile(created, cwd, s_historyFile)
     \/ /\ result' = "err"
        /\ UNCHANGED created
  /\ UNCHANGED <<currct_path, cwd, histLen, nLines, line, commands, segIdx,
                 previous_command, procs, log>>

\* handel_command returned: print the error, if any, and loop; the locals
\* of the call are gone and the log restarts with main's own report
MainResult ==
  /\ pc = "return"
  /\ log' = IF result = "err" THEN <<Ev(0, "eprint_err", <<>>)>> ELSE <<>>
  /\ pc' = "readline"
  /\ line' = <<>>
  /\ commands' = <<>>
  /\ segIdx' = 0
  /\ procs' = <<>>
  /\ UNCHANGED <<currct_path, cwd, created, histLen, nLines, previous_command, result>>

(* --------------------------------------------------------- handel_command *)
\* the segment the iterator yields next, parsed
Cur == ParseSegment(Head(commands))
InLoop == pc = "loop" /\ commands # <<>>
Dispatch(b) ==
  /\ InLoop
  /\ Cur.parts # <<>>
  /\ from_str(Head(Cur.parts)) = b
Yield ==
  /\ commands' = Tail(commands)
  /\ segIdx' = segIdx + 1

\* parts.next().unwrap() on a segment with no command token
StepNoToken ==
  /\ InLoop
  /\ Cur.parts = <<>>
  /\ Yield
  /\ pc' = "panic"
  /\ UNCHANGED <<currct_path, cwd, created, histLen, nLines, line, previous_command,
                 procs, log, result>>

StepHistory ==
  /\ Dispatch("History")
  /\ Yield
  /\ log' = Append(log, Ev(segIdx + 1, "print_history", <<>>))
  /\ UNCHANGED <<pc, currct_path, cwd, created, histLen, nLines, line, previous_command,
                 procs, result>>

\* variant: the last argument is taken instead of the first
NewDir_Last(args) == IF args = <<>> THEN s_root ELSE args[Len(args)]

\* args.peekable().peek().map_or("/", |x| *x)
NewDir(args) == IF args = <<>> THEN s_root ELSE Head(args)

\* variant: the displayed path is updated whether or not the change succeeded
PathAfterCd_Always(new_dir, path) == new_dir

\* the displayed path after env::set_current_dir(new_dir) (lines 122-126)
PathAfterCd(new_dir, path) ==
  IF new_dir \in Directories THEN new_dir ELSE path

\* the working directory after env::set_current_dir(new_dir) (line 122)
CwdAfterCd(new_dir, dir) ==
  IF new_dir \in Directories THEN new_dir ELSE dir

\* variant: the slot is emptied only when the directory change succeeds
StepCd_ClearOnSuccess ==
  /\ Dispatch("Cd")
  /\ Yield
  /\ LET new_dir == NewDir(Tail(Cur.parts)) IN
       /\ cwd' = CwdAfterCd(new_dir, cwd)
       /\ currct_path' = PathAfterCd(new_dir, currct_path)
       /\ log' = Append(log, Ev(segIdx + 1,
                    IF new_dir \in Directories THEN "chdir" ELSE "eprint_cd",
                    new_dir))
       /\ IF new_dir \in Directories
          THEN /\ previous_command' = None
               /\ procs' = SetFate(procs, previous_command, "dropped")
          ELSE UNCHANGED <<previous_command, procs>>
  /\ UNCHANGED <<pc, created, histLen, nLines, line, result>>

StepCd ==
  /\ Dispatch("Cd")
  /\ Yield
  /\ LET new_dir == NewDir(Tail(Cur.parts)) IN
       /\ cwd' = CwdAfterCd(new_dir, cwd)
       /\ currct_path' = PathAfterCd(new_dir, currct_path)
       /\ log' = Append(log, Ev(segIdx + 1,
                    IF new_dir \in Directories THEN "chdir" ELSE "eprint_cd",
                    new_dir))
  /\ previous_command' = None
  /\ procs' = SetFate(procs, previous_command, "dropped")
  /\ UNCHANGED <<pc, created, histLen, nLines, line, result>>

StepPwd ==
  /\ Dispatch("Pwd")
  /\ Yield
  /\ log' = Append(log, Ev(segIdx + 1, "print_pwd", currct_path))
  /\ UNCHANGED <<pc, currct_path, cwd, created, histLen, nLines, line, previous_command,
                 procs, result>>

\* an early return by `?`: the frame's previous_command is dropped
ReturnErr ==
  /\ pc' = "return"
  /\ result' = "err"
  /\ previous_command' = None
  /\ procs' = SetFate(procs, previous_command, "dropped")

\* rl.clear_screen()? either clears the terminal or returns its error
StepClear ==
  /\ Dispatch("Clear")
  /\ Yield
  /\ \/ /\ log' = Append(log, Ev(segIdx + 1, "clear_screen", <<>>))
        /\ UNCHANGED <<pc, previous_command, procs, result>>
     \/ /\ log' = log
        /\ ReturnErr
  /\ UNCHANGED <<currct_path, cwd, created, histLen, nLines, line>>

\* variant: exit is a no-op and the loop goes on
StepExit_Continue ==
  /\ Dispatch("Exit")
  /\ Yield
  /\ UNCHANGED <<pc, currct_path, cwd, created, histLen, nLines, line, previous_command,
                 procs, log, result>>

StepExit ==
  /\ Dispatch("Exit")
  /\ Yield
  /\ pc' = "final"
  /\ UNCHANGED <<currct_path, cwd, created, histLen, nLines, line, previous_command,
                 procs, log, result>>

\* rl.clear_history() empties the in-memory list; fs::write may then fail
StepClearHistory ==
  /\ Dispatch("ClearHistory")
  /\ Yield
  /\ histLen' = 0
  /\ \/ /\ log' = log \o << Ev(segIdx + 1, "clear_history", <<>>),
                            Ev(segIdx + 1, "write_history_file", <<>>),
                            Ev(segIdx + 1, "print_cleared", <<>>) >>
        /\ created' = WithFile(created, cwd, s_historyFile)
        /\ UNCHANGED <<pc, previous_command, procs, result>>
     \/ /\ log' = Append(log, Ev(segIdx + 1, "clear_history", <<>>))
        /\ ReturnErr
        /\ UNCHANGED created
  /\ UNCHANGED <<currct_path, cwd, nLines, line>>

StepHelp ==
  /\ Dispatch("Help")
  /\ Yield
  /\ log' = Append(log, Ev(segIdx + 1, "print_help", <<>>))
  /\ UNCHANGED <<pc, currct_path, cwd, created, histLen, nLines, line, previous_command,
                 procs, result>>

\* the stdin of an external segment (lines 138-144)
StdinFor(file, path, prev) ==
  IF file = "ReadFile" THEN FromFile(path)
  ELSE IF prev # None THEN FromPipe(prev)
  ELSE Inherit

\* the stdout of an external segment (lines 146-152)
StdoutFor(file, path, hasNext) ==
  IF file = "WriteFile" THEN FromFile(path)
  ELSE IF hasNext THEN Piped
  ELSE Inherit

\* variant: the Child stays in the slot after its stdout was taken
SlotAfterStdin_Aliased(file, prev) == prev

\* the slot after stdin was resolved: map_or moves the Child out of it
SlotAfterStdin(file, prev) == IF file = "ReadFile" THEN prev ELSE None

\* variant: the previous stage is waited on before its output is handed on
ProcsAfterStdin_Waited(file, prev, ps) ==
  IF file = "ReadFile" THEN ps ELSE SetFate(ps, prev, "waited")

\* the process table after stdin was resolved
ProcsAfterStdin(file, prev, ps) ==
  IF file = "ReadFile" THEN ps ELSE SetFate(ps, prev, "consumed")

NewProc(seg, cmd, args, stdin, stdout) ==
  [seg |-> seg, cmd |-> cmd, args |-> args, stdin |-> stdin,
   stdout |-> stdout, fate |-> "held", exited |-> FALSE]

\* previous_command = Some(output): the Child still in the slot is dropped
StoreSpawned(ps, slot, p) == Append(SetFate(ps, slot, "dropped"), p)

\* variant: a failed spawn leaves the slot as it was
SlotAfterFailedSpawn_Keep(slot) == slot

\* Err(e) => previous_command = None (line 165)
SlotAfterFailedSpawn(slot) == None

StepOther ==
  /\ Dispatch("Other")
  /\ Yield
  /\ LET seg == segIdx + 1
         file == Cur.file
         path == Cur.path
         cmd == Head(Cur.parts)
         args == Tail(Cur.parts)
         prev == previous_command
         stdin == StdinFor(file, path, prev)
         stdout == StdoutFor(file, path, Tail(commands) # <<>>)
         slot1 == SlotAfterStdin(file, prev)
         procs1 == ProcsAfterStdin(file, prev, procs)
     IN
     CASE file = "ReadFile" /\ ~Readable(created, cwd, path) ->
            \* File::open(file)? fails
            /\ log' = Append(log, Ev(seg, "open_fail", path))
            /\ ReturnErr
            /\ UNCHANGED created
       [] file # "ReadFile" /\ prev # None /\ procs[prev].stdout.kind # "piped" ->
            \* output.stdout.unwrap() on a Child spawned without a pipe
            /\ pc' = "panic"
            /\ UNCHANGED <<previous_command, procs, log, result, created>>
       [] file = "WriteFile" /\ path \notin WritableFiles ->
            \* File::options()...open(file)? fails after stdin was resolved
            /\ log' = Append(log, Ev(seg, "open_fail", path))
            /\ pc' = "return"
            /\ result' = "err"
            /\ previous_command' = None
            /\ procs' = procs1
            /\ UNCHANGED created
       [] OTHER ->
            LET opened == IF file = "ReadFile" THEN <<Ev(seg, "open_read", path)>>
                          ELSE IF file = "WriteFile" THEN <<Ev(seg, "open_write", path)>>
                          ELSE <<>>
            IN \* the write redirection creates its file before the spawn
               /\ created' = IF file = "WriteFile"
                             THEN WithFile(created, cwd, path) ELSE created
               /\ IF cmd \in Executables
                  THEN /\ procs' = StoreSpawned(procs1, slot1,
                                     NewProc(seg, cmd, args, stdin, stdout))
                       /\ previous_command' = Len(procs) + 1
                       /\ log' = log \o opened
                       /\ UNCHANGED <<pc, result>>
                  ELSE /\ procs' = SetFate(procs1, slot1, "dropped")
                       /\ previous_command' = SlotAfterFailedSpawn(slot1)
                       /\ log' = (log \o opened)
                                   \o <<Ev(seg, "eprint_spawn", cmd)>>
                       /\ UNCHANGED <<pc, result>>
  /\ UNCHANGED <<currct_path, cwd, histLen, nLines, line>>

\* commands.next() returned None
StepDone ==
  /\ pc = "loop"
  /\ commands = <<>>
  /\ pc' = "final"
  /\ UNCHANGED <<currct_path, cwd, created, histLen, nLines, line, commands, segIdx,
                 previous_command, procs, log, result>>

\* variant: the final wait returns without the process having exited
FinalWait_NoBlock ==
  /\ pc = "final"
  /\ previous_command # None
  /\ procs' = SetFate(procs, previous_command, "waited")
  /\ previous_command' = None
  /\ result' \in {"ok", "err"}
  /\ pc' = "return"
  /\ UNCHANGED <<currct_path, cwd, created, histLen, nLines, line, commands, segIdx, log>>

\* final_command.wait()?: returns once the process has exited
FinalWait ==
  /\ pc = "final"
  /\ previous_command # None
  /\ procs[previous_command].exited
  /\ procs' = SetFate(procs, previous_command, "waited")
  /\ previous_command' = None
  /\ result' \in {"ok", "err"}
  /\ pc' = "return"
  /\ UNCHANGED <<currct_path, cwd, created, histLen, nLines, line, commands, segIdx, log>>

\* nothing left in the slot: Ok(())
FinalNone ==
  /\ pc = "final"
  /\ previous_command = None
  /\ result' = "ok"
  /\ pc' = "return"
  /\ UNCHANGED <<currct_path, cwd, created, histLen, nLines, line, commands, segIdx,
                 previous_command, procs, log>>

\* a spawned process exits on its own while handel_command runs
ProcExit ==
  /\ pc \in {"loop", "final"}
  /\ \E h \in 1..Len(procs) :
       /\ ~procs[h].exited
       /\ procs' = [procs EXCEPT ![h].exited = TRUE]
  /\ UNCHANGED <<pc, currct_path, cwd, created, histLen, nLines, line, commands, segIdx,
                 previous_command, log, result>>

Next ==
  \/ ReadLine
  \/ ReadBreak
  \/ MainResult
  \/ StepNoToken
  \/ StepHistory
  \/ StepCd
  \/ StepPwd
  \/ StepClear
  \/ StepExit
  \/ StepClearHistory
  \/ StepHelp
  \/ StepOther
  \/ StepDone
  \/ FinalWait
  \/ FinalNone
  \/ ProcExit

Spec == Init /\ [][Next]_vars

TypeOK ==
  /\ pc \in {"readline", "loop", "final", "return", "done", "panic"}
  /\ previous_command \in 0..Len(procs)
  /\ result \in {"none", "ok", "err"}

(* ------------------------------------------------------------- properties *)
Handles == 1..Len(procs)
Held == {h \in Handles : procs[h].fate = "held"}
LineSegs == Segments(line)
Running == pc \in {"loop", "final", "return", "panic"}

\* segment text `seg` is an external command that spawns, with no redirection
PlainExternal(seg) ==
  /\ ~Contains(seg, ReadOp)
  /\ ~Contains(seg, WriteOp)
  /\ SplitWhitespace(seg) # <<>>
  /\ Head(SplitWhitespace(seg)) \in Executables

C1_Line ==
  /\ Running
  /\ LET segs == LineSegs
     IN /\ Len(segs) = 2
        /\ PlainExternal(segs[1])
        /\ PlainExternal(segs[2])

\* C1: on a line `A | B` of two external programs that spawn and have no
\* redirection, A is spawned with a new pipe as stdout, B with the read end
\* of that pipe as stdin and the terminal as stdout, and handel_command
\* returns only after B has exited (and was waited on).
C1_PipeAndWait ==
  C1_Line =>
    /\ Len(procs) >= 1 =>
         /\ procs[1].cmd = Head(SplitWhitespace(LineSegs[1]))
         /\ procs[1].stdout = Piped
    /\ Len(procs) >= 2 =>
         /\ procs[2].cmd = Head(SplitWhitespace(LineSegs[2]))
         /\ procs[2].stdin = FromPipe(1)
         /\ procs[2].stdout = Inherit
    /\ pc = "return" =>
         /\ Len(procs) = 2
         /\ procs[2].exited
         /\ procs[2].fate = "waited"

C1_Witness ==
  /\ C1_Line
  /\ pc = "return"
  /\ result = "ok"
  /\ Len(procs) = 2
  /\ procs[1].stdout = Piped
  /\ procs[2].stdin = FromPipe(1)
  /\ procs[2].exited

\* C2: at most one spawned handle is held unconsumed, it is the one in the
\* previous_command slot, and no handle is in two places: a handle that is
\* some process's stdin source has left the slot as consumed, and feeds at
\* most one process.
C2_OneHandle ==
  /\ Cardinality(Held) <= 1
  /\ Held = (IF previous_command = None THEN {} ELSE {previous_command})
  /\ \A h \in Handles :
       procs[h].stdin.kind = "pipe" =>
         /\ procs[h].stdin.from \in 1..(h - 1)
         /\ procs[procs[h].stdin.from].fate = "consumed"
         /\ \A k \in Handles :
              (procs[k].stdin.kind = "pipe" /\ procs[k].stdin.from = procs[h].stdin.from)
                => k = h

C2_Witness ==
  /\ Len(procs) = 3
  /\ procs[1].fate = "consumed"
  /\ procs[2].fate = "dropped"
  /\ previous_command = 3
  /\ Held = {3}

\* C3 (as claimed): when handel_command returns, every process spawned for
\* the line was consumed as a later segment's stdin or waited on.
C3_NoHandleDiscarded ==
  pc = "return" =>
    \A h \in Handles : procs[h].fate \in {"consumed", "waited"}

BuiltinNames ==
  {s_history, s_cd, s_pwd, s_clear, s_exit, s_clearHistory, s_help}

LineTokens == SplitWhitespace(line)

\* the line is one segment, has no redirection, and its first token is a builtin
C4_Line ==
  /\ pc \in {"loop", "final", "return"}
  /\ ~Contains(line, PipeSep)
  /\ ~Contains(line, ReadOp)
  /\ ~Contains(line, WriteOp)
  /\ LineTokens # <<>>
  /\ Head(LineTokens) \in BuiltinNames

\* what the builtin named by the line prints and changes
C4_Effect ==
  LET name == Head(LineTokens)
      dir == IF Len(LineTokens) >= 2 THEN LineTokens[2] ELSE <<"/">>
  IN IF name = s_history THEN <<Ev(1, "print_history", <<>>)>>
     ELSE IF name = s_cd
          THEN <<Ev(1, IF dir \in Directories THEN "chdir" ELSE "eprint_cd", dir)>>
     ELSE IF name = s_pwd THEN <<Ev(1, "print_pwd", currct_path)>>
     ELSE IF name = s_clear THEN <<Ev(1, "clear_screen", <<>>)>>
     ELSE IF name = s_clearHistory
          THEN <<Ev(1, "clear_history", <<>>), Ev(1, "write_history_file", <<>>),
                 Ev(1, "print_cleared", <<>>)>>
     ELSE IF name = s_help THEN <<Ev(1, "print_help", <<>>)>>
     ELSE <<>>

\* C4 (as claimed): on a one-segment line without redirection whose first
\* token is a builtin name, handel_command performs the builtin's side effect
\* and spawns and waits on no process.
C4_BuiltinEffectAlways ==
  C4_Line =>
    /\ procs = <<>>
    /\ pc = "return" => log = C4_Effect

\* C4 (amended): on such a line no process is spawned or waited on, and
\* handel_command performs the builtin's side effect unless the builtin's own
\* terminal or history-file operation fails (clear: clearing the screen;
\* clearHistory: writing ./history.txt after the in-memory history was
\* cleared), in which case it returns that error instead.
C4_BuiltinNoProcess ==
  C4_Line =>
    /\ procs = <<>>
    /\ previous_command = None
    /\ pc = "return" =>
         \/ /\ result = "ok"
            /\ log = C4_Effect
         \/ /\ result = "err"
            /\ Head(LineTokens) = s_clear
            /\ log = <<>>
         \/ /\ result = "err"
            /\ Head(LineTokens) = s_clearHistory
            /\ log = <<Ev(1, "clear_history", <<>>)>>
            /\ histLen = 0

C4_Witness ==
  /\ C4_Line
  /\ pc = "return"
  /\ result = "ok"
  /\ Head(LineTokens) = s_help
  /\ log = C4_Effect
  /\ procs = <<>>

\* the segment about to be yielded is a cd segment; its first argument
C5_AtCd ==
  /\ InLoop
  /\ Cur.parts # <<>>
  /\ Head(Cur.parts) = s_cd
C5_Arg == IF Len(Cur.parts) >= 2 THEN Cur.parts[2] ELSE <<"/">>

C5_Step ==
  (C5_AtCd /\ segIdx' = segIdx + 1) =>
    IF C5_Arg \in Directories
    THEN /\ currct_path' = C5_Arg
         /\ log' = Append(log, Ev(segIdx', "chdir", C5_Arg))
    ELSE /\ currct_path' = currct_path
         /\ log' = Append(log, Ev(segIdx', "eprint_cd", C5_Arg))
         /\ pc' = "loop"
         /\ result' = result

\* a pwd printed after a successful cd, with no other successful cd between,
\* prints that cd's path; a line that is only a cd segment returns Ok
C5_State ==
  /\ \A i, j \in DOMAIN log :
       ( /\ i < j
         /\ log[i].ev = "chdir"
         /\ log[j].ev = "print_pwd"
         /\ \A k \in (i + 1)..(j - 1) : log[k].ev # "chdir" )
       => log[j].arg = log[i].arg
  /\ ( /\ pc = "return"
       /\ Len(LineSegs) = 1
       /\ ~Contains(line, ReadOp)
       /\ ~Contains(line, WriteOp)
       /\ LineTokens # <<>>
       /\ Head(LineTokens) = s_cd )
     => result = "ok"

\* C5: a cd segment with first argument p ("/" when none) sets the displayed
\* path to exactly p when the directory change succeeds, so a following pwd
\* prints p; when it fails the error is reported, the displayed path is
\* unchanged and handel_command does not return an error for it.
C5_CdPath == [][C5_Step]_vars /\ []C5_State

C5_Witness ==
  \E i, j \in DOMAIN log :
    /\ i < j
    /\ log[i].ev = "chdir"
    /\ log[i].arg = <<"/", "t">>
    /\ log[j].ev = "print_pwd"
    /\ log[j].arg = <<"/", "t">>
    /\ currct_path = <<"/", "t">>

C6_Step ==
  currct_path' # currct_path =>
    /\ C5_AtCd
    /\ segIdx' = segIdx + 1
    /\ C5_Arg \in Directories
    /\ currct_path' = C5_Arg

\* two pwd outputs with no successful cd between them are equal
C6_State ==
  \A i, j \in DOMAIN log :
    ( /\ i < j
      /\ log[i].ev = "print_pwd"
      /\ log[j].ev = "print_pwd"
      /\ \A k \in (i + 1)..(j - 1) : log[k].ev # "chdir" )
    => log[j].arg = log[i].arg

\* C6: the displayed path is changed only by a cd segment whose directory
\* change succeeds; every other segment, a failed cd, a spawn failure and a
\* redirection-open failure leave it unchanged, so two pwd executions with
\* no successful cd between them print the same path.
C6_PathFrame == [][C6_Step]_vars /\ []C6_State

C6_Witness ==
  \E i, k, j \in DOMAIN log :
    /\ i < k
    /\ k < j
    /\ log[i].ev = "print_pwd"
    /\ log[k].ev = "eprint_cd"
    /\ log[j].ev = "print_pwd"
    /\ log[j].arg = log[i].arg

\* the segment text carries a redirection whose file cannot be opened
BadRedirect(seg) ==
  LET p == ParseSegment(seg)
  IN \/ p.file = "ReadFile" /\ ~Readable(created, cwd, p.path)
     \/ p.file = "WriteFile" /\ p.path \notin WritableFiles

\* C7 (as claimed): once a segment, builtin or external, with an unopenable
\* redirection target has been reached, handel_command has returned an error
\* for the line, and neither that segment nor a later one was dispatched: no
\* process spawned for them and nothing printed or changed by them.
C7_OpenFailureFatal ==
  \A i \in 1..segIdx :
    (i <= Len(LineSegs) /\ BadRedirect(LineSegs[i])) =>
      /\ pc = "return"
      /\ result = "err"
      /\ \A h \in Handles : procs[h].seg < i
      /\ \A k \in DOMAIN log : log[k].seg >= i => log[k].ev = "open_fail"

\* the spawned processes of segments strictly between i and j
SpawnedBetween(i, j) == {h \in Handles : i < procs[h].seg /\ procs[h].seg < j}

\* C8 (as claimed): after a failed spawn the slot is empty and no error is
\* returned for it, and the next spawned external segment without a read
\* redirection has the terminal as stdin.
C8_NextStdinTerminal ==
  \A k \in DOMAIN log :
    log[k].ev = "eprint_spawn" =>
      LET i == log[k].seg IN
      /\ segIdx = i =>
           (previous_command = None /\ result \in {"none", "ok"})
      /\ \A h \in Handles :
           ( /\ procs[h].seg > i
             /\ procs[h].stdin.kind # "file"
             /\ \A g \in SpawnedBetween(i, procs[h].seg) :
                  procs[g].stdin.kind = "file" )
           => procs[h].stdin = Inherit

\* C8 (amended): a failed spawn is reported, empties the slot, returns no
\* error and leaves the loop running with the remaining segments; no later
\* segment takes its stdin from a stage at or before the failed one, and an
\* external segment without a read redirection has the terminal as stdin
\* when no segment between the failed one and it has spawned a process.
C8_SpawnFailure ==
  \A k \in DOMAIN log :
    log[k].ev = "eprint_spawn" =>
      LET i == log[k].seg IN
      /\ segIdx = i =>
           /\ previous_command = None
           /\ pc \in {"loop", "final", "return"}
           /\ result \in {"none", "ok"}
           /\ pc = "loop" => Len(commands) = Len(LineSegs) - i
           /\ pc = "return" => result = "ok"
      /\ \A h \in Handles :
           procs[h].seg > i =>
             /\ procs[h].stdin.kind = "pipe" =>
                  procs[procs[h].stdin.from].seg > i
             /\ (procs[h].stdin.kind # "file" /\ SpawnedBetween(i, procs[h].seg) = {})
                  => procs[h].stdin = Inherit

C8_Witness ==
  /\ pc = "return"
  /\ result = "ok"
  /\ \E k \in DOMAIN log : log[k].ev = "eprint_spawn" /\ log[k].seg = 2
  /\ Len(procs) = 2
  /\ procs[1].seg = 1
  /\ procs[1].fate = "dropped"
  /\ procs[2].seg = 3
  /\ procs[2].stdin = Inherit

\* C9 (as claimed): a segment whose command portion is empty or all
\* whitespace is a no-op; the executor does not crash on it.
C9_EmptySegmentNoop ==
  ~ ( /\ pc = "panic"
      /\ segIdx >= 1
      /\ ParseSegment(LineSegs[segIdx]).parts = <<>> )

\* the segment yielded last is an exit segment: the loop was left by it
ExitReached ==
  /\ pc = "return"
  /\ segIdx >= 1
  /\ ParseSegment(LineSegs[segIdx]).parts # <<>>
  /\ Head(ParseSegment(LineSegs[segIdx]).parts) = s_exit

\* C10 (as claimed): once a line with an exit segment has been executed,
\* main's loop terminates instead of going back to read another line.
C10_ExitEndsRepl == [][ExitReached => pc' = "done"]_vars

\* a step of the loop that yields the next segment of the line
YieldsSegment == InLoop /\ segIdx' = segIdx + 1
Spawned == Len(procs') = Len(procs) + 1
NewChild == procs'[Len(procs')]
\* the step logs event ev with argument arg for the segment it yields
Logs(ev, arg) == \E k \in DOMAIN log' : log'[k] = Ev(segIdx', ev, arg)

C11_Step ==
  YieldsSegment =>
    IF Cur.file = "ReadFile"
    THEN Readable(created, cwd, Cur.path) =>
           /\ Logs("open_read", Cur.path)
           /\ Spawned => NewChild.stdin = FromFile(Cur.path)
    ELSE IF previous_command # None
    THEN /\ procs'[previous_command].fate = "consumed"
         /\ previous_command' # previous_command
         /\ Spawned => NewChild.stdin = FromPipe(previous_command)
    ELSE Spawned => NewChild.stdin = Inherit

\* C11 (as claimed): for each segment, builtin or external, the stdin source
\* is resolved when the segment is reached: the file of its read redirection
\* is opened when it has one that can be opened; otherwise the stdout of the
\* process in the slot is taken, and that handle is consumed and leaves the
\* slot; otherwise the terminal's input is used.
C11_StdinPriority == [][C11_Step]_vars

\* what a builtin prints to the terminal
TerminalOutput == {"print_history", "print_pwd", "print_help", "print_cleared"}
\* the step dispatches its segment: it ends neither in an error return, nor
\* in a panic, nor in a failed spawn
Dispatched ==
  /\ pc' \notin {"return", "panic"}
  /\ \A k \in DOMAIN log' :
       log'[k].seg = segIdx' => log'[k].ev # "eprint_spawn"

C12_Step ==
  (YieldsSegment /\ Dispatched) =>
    IF Cur.file = "WriteFile"
    THEN /\ Logs("open_write", Cur.path)
         /\ Readable(created', cwd, Cur.path)
         /\ Spawned => NewChild.stdout = FromFile(Cur.path)
         /\ \A k \in DOMAIN log' :
              log'[k].seg = segIdx' => log'[k].ev \notin TerminalOutput
    ELSE IF Len(commands) > 1
    THEN Spawned /\ NewChild.stdout = Piped
    ELSE Spawned => NewChild.stdout = Inherit

\* C12 (as claimed): for each dispatched segment, builtin or external, the
\* stdout sink is resolved when the segment is reached: the file of its
\* write redirection is opened, and created if absent, when it has one, and
\* the segment's output does not go to the terminal or a pipe; otherwise a
\* new pipe is created when another segment follows; otherwise the
\* terminal's output is used.
C12_StdoutPriority == [][C12_Step]_vars

\* the segment text's command is exit
IsExitSeg(seg) ==
  LET parts == ParseSegment(seg).parts
  IN parts # <<>> /\ Head(parts) = s_exit

\* C13: once an exit segment is reached the loop has ended: it is the last
\* segment yielded, the segments after it stay unconsumed, and nothing was
\* spawned, printed, opened or changed for them.
C13_ExitStops ==
  LET segs == LineSegs IN
  \A i \in 1..segIdx :
    (i <= Len(segs) /\ IsExitSeg(segs[i])) =>
      /\ segIdx = i
      /\ pc \in {"final", "return"}
      /\ commands = SubSeq(segs, i + 1, Len(segs))
      /\ \A h \in Handles : procs[h].seg < i
      /\ \A k \in DOMAIN log : log[k].seg < i

C13_Witness ==
  /\ pc = "return"
  /\ Len(LineSegs) = 3
  /\ IsExitSeg(LineSegs[2])
  /\ segIdx = 2
  /\ commands # <<>>
  /\ Len(procs) = 1
  /\ procs[1].fate = "waited"

Waited == {h \in Handles : procs[h].fate = "waited"}

\* at most one process was waited on, the last one spawned, after the loop
C14_State ==
  /\ Cardinality(Waited) <= 1
  /\ pc = "loop" => Waited = {}
  /\ Waited # {} =>
       /\ pc = "return"
       /\ Waited = {Len(procs)}
       /\ procs[Len(procs)].exited
       /\ segIdx = Len(LineSegs) \/ IsExitSeg(LineSegs[segIdx])

\* a wait is the final one, on the handle in the slot, and ends the call with
\* its result; a spawn never follows or needs a wait
C14_Step ==
  /\ Waited' \ Waited # {} =>
       /\ pc = "final"
       /\ previous_command # None
       /\ Waited' = {previous_command}
       /\ pc' = "return"
       /\ result' \in {"ok", "err"}
  /\ Spawned => Waited = {} /\ Waited' = {}

\* C14: the executor waits at most once per line, after the segment loop has
\* ended, on the handle left in the slot; no stage is waited on before the
\* next is spawned, so the stages of a pipe chain are alive together; the
\* result of that wait is the result of the line.
C14_SingleFinalWait == [][C14_Step]_vars /\ []C14_State

C14_Witness ==
  /\ pc = "return"
  /\ result = "err"
  /\ Len(procs) = 2
  /\ procs[2].stdin = FromPipe(1)
  /\ ~procs[1].exited
  /\ procs[1].fate = "consumed"
  /\ Waited = {2}

\* the segment text's command is the builtin `name`
IsBuiltinSeg(seg, name) ==
  LET parts == ParseSegment(seg).parts
  IN parts # <<>> /\ Head(parts) = name

\* C15 (as claimed): a history segment prints the history, spawns nothing and
\* leaves the slot empty, so no later segment takes its stdin from a stage
\* before the history segment.
C15_HistoryClearsSlot ==
  \A i \in 1..segIdx :
    (i <= Len(LineSegs) /\ IsBuiltinSeg(LineSegs[i], s_history)) =>
      /\ \E k \in DOMAIN log : log[k] = Ev(i, "print_history", <<>>)
      /\ \A h \in Handles : procs[h].seg # i
      /\ segIdx = i => previous_command = None
      /\ \A h \in Handles :
           (procs[h].seg > i /\ procs[h].stdin.kind = "pipe")
             => procs[procs[h].stdin.from].seg > i

\* C16: a cd segment empties the slot whether the directory change succeeds
\* or not: right after it the slot is empty, a later external segment takes
\* no stdin from a stage before the cd (the terminal when it is the next to
\* spawn and has no read redirection), and no stage before the cd is the one
\* waited on.
C16_CdClearsSlot ==
  LET segs == LineSegs IN
  \A i \in 1..segIdx :
    (i <= Len(segs) /\ IsBuiltinSeg(segs[i], s_cd)) =>
      /\ segIdx = i => previous_command = None
      /\ \A h \in Handles :
           /\ procs[h].seg < i => procs[h].fate \notin {"held", "waited"}
           /\ (procs[h].seg > i /\ procs[h].stdin.kind = "pipe")
                => procs[procs[h].stdin.from].seg > i
           /\ ( /\ procs[h].seg > i
                /\ procs[h].stdin.kind # "file"
                /\ SpawnedBetween(i, procs[h].seg) = {} )
              => procs[h].stdin = Inherit

C16_Witness ==
  /\ pc = "return"
  /\ Len(LineSegs) = 3
  /\ IsBuiltinSeg(LineSegs[2], s_cd)
  /\ \E k \in DOMAIN log : log[k].ev = "eprint_cd" /\ log[k].seg = 2
  /\ Len(procs) = 2
  /\ procs[1].fate = "dropped"
  /\ procs[2].stdin = Inherit
  /\ Waited = {2}

\* index of the first occurrence of pat in s, 0 when there is none
FirstIndex(s, pat) ==
  LET hits == {i \in 1..(Len(s) - Len(pat) + 1) :
                 SubSeq(s, i, i + Len(pat) - 1) = pat}
  IN IF hits = {} THEN 0 ELSE CHOOSE i \in hits : \A j \in hits : i <= j

\* the parse the claim describes: `<<` is looked for first, `>>` only when
\* `<<` is absent; the command tokens are those before the honoured operator
\* and the path is the trimmed remainder after it
ClaimedParse(seg) ==
  LET r == FirstIndex(seg, ReadOp)
      w == FirstIndex(seg, WriteOp)
  IN IF r > 0
     THEN [file |-> "ReadFile", path |-> Trim(SubSeq(seg, r + 2, Len(seg))),
           parts |-> SplitWhitespace(SubSeq(seg, 1, r - 1))]
     ELSE IF w > 0
     THEN [file |-> "WriteFile", path |-> Trim(SubSeq(seg, w + 2, Len(seg))),
           parts |-> SplitWhitespace(SubSeq(seg, 1, w - 1))]
     ELSE [file |-> "None", path |-> <<>>, parts |-> SplitWhitespace(seg)]

\* C17 (as claimed): each segment is parsed with `<<` taking precedence over
\* `>>`, never both, the other operator's text staying ordinary text, and
\* the file path being the trimmed remainder after the honoured operator.
C17_RedirectParse ==
  \A i \in 1..Len(LineSegs) : ParseSegment(LineSegs[i]) = ClaimedParse(LineSegs[i])

RECURSIVE SumLen(_, _)
SumLen(segs, n) == IF n = 0 THEN 0 ELSE Len(segs[n]) + SumLen(segs, n - 1)

\* position, in the trimmed line, of the pipe of the i-th separator
SepPosIn(segs, i) == SumLen(segs, i) + 3 * (i - 1) + 2
SepPos(i) == SepPosIn(LineSegs, i)

\* C18 (as claimed): there is at least one segment, and every pipe treated
\* as a separator has exactly one space on each side.
C18_ExactlyOneSpace ==
  LET t == Trim(line) IN
  /\ Len(LineSegs) >= 1
  /\ \A i \in 1..(Len(LineSegs) - 1) :
       LET p == SepPos(i) IN
       /\ t[p] = "|"
       /\ t[p - 1] = " "
       /\ t[p + 1] = " "
       /\ p - 2 >= 1 => t[p - 2] # " "
       /\ p + 2 <= Len(t) => t[p + 2] # " "

\* C18 (amended): the trimmed line is split at the leftmost non-overlapping
\* occurrences of the literal space-pipe-space: joining the segments with it
\* gives back the trimmed line, every separator is a pipe with a space
\* directly on each side (further spaces stay in the segments), no segment
\* contains the token or ends where an earlier match would begin, and there
\* is at least one segment.
C18_SplitLiteral ==
  LET t == Trim(line)
      segs == LineSegs
      n == Len(segs)
  IN /\ n >= 1
     /\ JoinPipe(segs) = t
     /\ ~Contains(segs[n], PipeSep)
     /\ \A i \in 1..(n - 1) :
          /\ ~Contains(segs[i] \o <<" ">>, PipeSep)
          /\ SubSeq(t, SepPosIn(segs, i) - 1, SepPosIn(segs, i) + 1) = PipeSep

C18_Witness ==
  /\ pc = "return"
  /\ line = <<"A", " ", " ", "|", " ", " ", "B">>
  /\ LineSegs = << <<"A", " ">>, <<" ", "B">> >>
  /\ Len(procs) = 2
  /\ procs[2].stdin = FromPipe(1)

\* C19 (as claimed): the executor never crashes taking the stdout of the
\* process in the slot: that process was spawned with a pipe as stdout.
C19_TakenStdoutPiped ==
  ~ ( /\ pc = "panic"
      /\ segIdx >= 1
      /\ ParseSegment(LineSegs[segIdx]).parts # <<>>
      /\ previous_command # None
      /\ procs[previous_command].stdout.kind # "piped" )

\* C20 (as claimed): the process the final wait blocks on does not have as
\* stdout a pipe whose read end the executor still holds unread.
C20_WaitNotOnHeldPipe ==
  (pc = "final" /\ previous_command # None) =>
    procs[previous_command].stdout.kind # "piped"
====
